---- MODULE Spec2Model ----
(***************************************************************************)
(* Model of the tether agents of vic-ui.                                   *)
(*                                                                         *)
(*   direct mode   src/unnamed/part_001             main, childReaper, id  *)
(*   console mode  src/bootstrap/targets/proxy/tether/tether.go            *)
(*                                                 main,                   *)
(*                                                 handleConnectionFromGuest*)
(*                                                                         *)
(* The two agents are separate programs: prog says which one runs.         *)
(***************************************************************************)
EXTENDS Naturals, Sequences, FiniteSets, TLC

\* ------------------------------------------------------------------ bounds
MaxHups    == 2    \* reconfiguration signals sent by the environment
MaxCycles  == 3    \* provisioning cycles of the direct-mode loop
MaxConns   == 2    \* guest connections accepted in console mode
MaxAcceptErrs == 1 \* failed AcceptTCP calls
NumPids    == 2    \* process ids the OS hands out to children
MaxSpawns  == 2    \* supervised children spawned by the session layer
MaxAdopted == 2    \* orphans re-parented to the agent
MaxWaitErrs == 1   \* Wait4 errors other than ECHILD
MaxIdLen   == 66   \* bytes in the identity file
MaxIdShift == 1    \* byte patterns of the identity file

\* ------------------------------------------------------- program constants
HupCap        == 1     \* make(chan os.Signal, 1)
SigChldCap    == 10    \* make(chan os.Signal, 10)
StatusChanCap == 1     \* "has a bufferring capacity of 1"

ChildPids == 2..(NumPids + 1)      \* pid 1 is the agent itself
Spawners  == 1..MaxSpawns          \* a spawner task, its child and its queue
Conns     == 1..MaxConns
KeyFiles  == {"ok", "missing", "unparseable"}

VARIABLES
    prog,          \* "direct" | "console": which agent this process is
    keyState,      \* "none" | "ok" | "failed": outcome of privateKey
    exitCause,     \* why the process ended ("none" while it runs)
    \* ---- direct mode, main
    mpc,           \* position of main
    isInit,        \* os.Getpid() == 1
    pprof,         \* "none" | "spawned" | "listening" | "failed"
    urandomNode,   \* /.tether/urandom was created
    urandomOpen,   \* rand.Reader is the opened urandom device
    comNode,       \* /.tether/ttyS0 was created
    comOpen,       \* number of open handles on ttyS0
    hupNotify,     \* signal.Notify(hup, SIGHUP) was called
    hup,           \* signals buffered in the hup channel
    hupSent,       \* signals the environment has sent
    hupDelivered,  \* signals put into the hup channel (self-delivered one too)
    hupArrived,    \* LifecycleStates in which the signals arrived since the last <-hup
    cycleTrigger,  \* hupArrived when the current cycle consumed its signal
    cycles,        \* provisioning cycles started
    sessions,      \* calls of tether.StartTether
    hs,            \* "none" | "ok" | "fail": handshake of the current cycle
    idFile,        \* bytes of /.tether-init/docker-id
    handlerId,     \* handler.id of the current cycle
    \* ---- direct mode, childReaper and the children
    rpc,           \* position of childReaper ("off": not started)
    incoming,      \* SIGCHLD notifications buffered for the reaper
    rpid,          \* pid returned by the last Wait4 (0: none)
    rstatus,       \* whose status Wait4 returned (Spawners, 0: an orphan)
    rchan,         \* queue found in the table for rpid (0: none)
    waitErrs,      \* Wait4 errors seen
    childPidTableMutex, \* "free" | "reaper" | "spawner": who holds the lock
    childPidTable, \* pid -> queue (0: no entry)
    statusChan,    \* queue -> buffered statuses
    delivered,     \* queue -> every status ever sent into it
    discarded,     \* children whose status the reaper dropped as a zombie's
    proc,          \* pid -> [st, inc]: OS process table of the children
    spc,           \* spawner -> position
    spid,          \* spawner -> pid of its child (0: none)
    got,           \* spawner -> statuses received from its queue
    adopted,       \* orphans adopted so far
    \* ---- console mode
    cpc,           \* position of main
    ln,            \* "none" | "listening" | "failed": the guest listener
    accepted,      \* connections accepted
    acceptErrs,    \* failed accepts
    hpc,           \* connection -> stage of its handler
    issued,        \* connection -> stages performed, in order
    failed,        \* connection -> stages that failed
    guestConn,     \* connection -> "none" | "open" | "closed"
    dconn          \* connection -> "none" | "open" | "closed"

commonVars  == <<prog, keyState, exitCause>>
mainVars    == <<mpc, isInit, pprof, urandomNode, urandomOpen, comNode, comOpen,
                 hupNotify, hup, hupSent, hupDelivered, hupArrived, cycleTrigger,
                 cycles, sessions, hs, idFile, handlerId>>
reaperVars  == <<rpc, incoming, rpid, rstatus, rchan, waitErrs>>
tableVars   == <<childPidTableMutex, childPidTable, statusChan, delivered, discarded>>
childVars   == <<proc, spc, spid, got, adopted>>
consoleVars == <<cpc, ln, accepted, acceptErrs, hpc, issued, failed, guestConn, dconn>>
vars == <<commonVars, mainVars, reaperVars, tableVars, childVars, consoleVars>>

\* ------------------------------------------------------------------- Init
Init ==
    /\ prog \in {"direct", "console"}
    /\ keyState = "none"
    /\ exitCause = "none"
    /\ mpc = IF prog = "direct" THEN "start" ELSE "off"
    /\ isInit \in (IF prog = "direct" THEN BOOLEAN ELSE {FALSE})
    /\ pprof = "none"
    /\ urandomNode = FALSE
    /\ urandomOpen = FALSE
    /\ comNode = FALSE
    /\ comOpen = 0
    /\ hupNotify = FALSE
    /\ hup = 0
    /\ hupSent = 0
    /\ hupDelivered = 0
    /\ hupArrived = <<>>
    /\ cycleTrigger = <<>>
    /\ cycles = 0
    /\ sessions = 0
    /\ hs = "none"
    /\ idFile = <<>>
    /\ handlerId = <<>>
    /\ rpc = "off"
    /\ incoming = 0
    /\ rpid = 0
    /\ rstatus = 0
    /\ rchan = 0
    /\ waitErrs = 0
    /\ childPidTableMutex = "free"
    /\ childPidTable = [p \in ChildPids |-> 0]
    /\ statusChan = [s \in Spawners |-> <<>>]
    /\ delivered = [s \in Spawners |-> <<>>]
    /\ discarded = {}
    /\ proc = [p \in ChildPids |-> [st |-> "free", inc |-> 0]]
    /\ spc = [s \in Spawners |-> "idle"]
    /\ spid = [s \in Spawners |-> 0]
    /\ got = [s \in Spawners |-> <<>>]
    /\ adopted = 0
    /\ cpc = IF prog = "console" THEN "privateKey" ELSE "off"
    /\ ln = "none"
    /\ accepted = 0
    /\ acceptErrs = 0
    /\ hpc = [h \in Conns |-> "idle"]
    /\ issued = [h \in Conns |-> <<>>]
    /\ failed = [h \in Conns |-> {}]
    /\ guestConn = [h \in Conns |-> "none"]
    /\ dconn = [h \in Conns |-> "none"]

\* The process is running: main has neither returned nor called log.Fatalf.
Running == exitCause = "none"

\* ---------------------------------------------------- privateKey (shared)
\* privateKey without the abort: the failure is only logged.
privateKey_NoFatal(file) ==
    [key |-> IF file = "ok" THEN "ok" ELSE "failed", exit |-> FALSE]

\* privateKey(file): log.Fatalf on an unreadable or unparseable key file.
privateKey(file) ==
    IF file = "ok" THEN [key |-> "ok", exit |-> FALSE]
                   ELSE [key |-> "failed", exit |-> TRUE]


\* =========================================================== direct mode
\* LifecycleState of the controller, from the position of main.
LifecycleState ==
    CASE mpc = "waitHup" -> "Idle"
      [] mpc \in {"openCom", "NewFileConn", "id", "HandshakeServer", "StartTether"}
                         -> "Provisioning"
      [] mpc = "session" -> "Active"
      [] mpc = "exited"  -> "Exited"
      [] OTHER           -> "Startup"

otherThanMain == <<prog, reaperVars, tableVars, childVars, consoleVars>>

\* go func() { log.Println(http.ListenAndServe("0.0.0.0:6060", nil)) }()
Main_GoPprof ==
    /\ Running /\ mpc = "start"
    /\ pprof' = "spawned"
    /\ mpc' = "mknodUrandom"
    /\ UNCHANGED <<keyState, exitCause, isInit, urandomNode, urandomOpen, comNode,
                   comOpen, hupNotify, hup, hupSent, hupDelivered, hupArrived,
                   cycleTrigger, cycles, sessions, hs>>
    /\ UNCHANGED <<idFile, handlerId>>
    /\ UNCHANGED otherThanMain

\* The goroutine of http.ListenAndServe: it binds the port, or fails and logs.
PprofListenAndServe ==
    /\ Running /\ pprof = "spawned"
    /\ \/ pprof' = "listening"
       \/ pprof' = "failed"
    /\ UNCHANGED <<keyState, exitCause, mpc, isInit, urandomNode, urandomOpen, comNode,
                   comOpen, hupNotify, hup, hupSent, hupDelivered, hupArrived,
                   cycleTrigger, cycles, sessions, hs>>
    /\ UNCHANGED <<idFile, handlerId>>
    /\ UNCHANGED otherThanMain

\* syscall.Mknod("/.tether/urandom", ...): on error, log and return.
Main_MknodUrandom ==
    /\ Running /\ mpc = "mknodUrandom"
    /\ \/ /\ urandomNode' = TRUE
          /\ mpc' = "openUrandom"
          /\ UNCHANGED exitCause
       \/ /\ mpc' = "exited"
          /\ exitCause' = "mknodUrandom"
          /\ UNCHANGED urandomNode
    /\ UNCHANGED <<keyState, isInit, pprof, urandomOpen, comNode,
                   comOpen, hupNotify, hup, hupSent, hupDelivered, hupArrived,
                   cycleTrigger, cycles, sessions, hs>>
    /\ UNCHANGED <<idFile, handlerId>>
    /\ UNCHANGED otherThanMain

\* rand.Reader, err = os.Open("/.tether/urandom"): on error, log and return.
Main_OpenUrandom ==
    /\ Running /\ mpc = "openUrandom"
    /\ \/ /\ urandomOpen' = TRUE
          /\ mpc' = "privateKey"
          /\ UNCHANGED exitCause
       \/ /\ mpc' = "exited"
          /\ exitCause' = "openUrandom"
          /\ UNCHANGED urandomOpen
    /\ UNCHANGED <<keyState, isInit, pprof, urandomNode, comNode,
                   comOpen, hupNotify, hup, hupSent, hupDelivered, hupArrived,
                   cycleTrigger, cycles, sessions, hs>>
    /\ UNCHANGED <<idFile, handlerId>>
    /\ UNCHANGED otherThanMain

\* private := privateKey(tetherKey); then os.Pipe()
Main_privateKey ==
    /\ Running /\ mpc = "privateKey"
    /\ \E file \in KeyFiles :
         LET r == privateKey(file) IN
         /\ keyState' = r.key
         /\ mpc' = IF r.exit THEN "exited" ELSE "mknodCom"
         /\ exitCause' = IF r.exit THEN "privateKey" ELSE exitCause
    /\ UNCHANGED <<isInit, pprof, urandomNode, urandomOpen, comNode,
                   comOpen, hupNotify, hup, hupSent, hupDelivered, hupArrived,
                   cycleTrigger, cycles, sessions, hs>>
    /\ UNCHANGED <<idFile, handlerId>>
    /\ UNCHANGED otherThanMain

\* syscall.Mknod("/.tether/ttyS0", ...): on error, log and return.
Main_MknodCom ==
    /\ Running /\ mpc = "mknodCom"
    /\ \/ /\ comNode' = TRUE
          /\ mpc' = "startReaper"
          /\ UNCHANGED exitCause
       \/ /\ mpc' = "exited"
          /\ exitCause' = "mknodCom"
          /\ UNCHANGED comNode
    /\ UNCHANGED <<keyState, isInit, pprof, urandomNode, urandomOpen,
                   comOpen, hupNotify, hup, hupSent, hupDelivered, hupArrived,
                   cycleTrigger, cycles, sessions, hs>>
    /\ UNCHANGED <<idFile, handlerId>>
    /\ UNCHANGED otherThanMain

\* pid := os.Getpid(); if pid == 1 { go childReaper() }
Main_GoChildReaper ==
    /\ Running /\ mpc = "startReaper"
    /\ rpc' = IF isInit THEN "Notify" ELSE rpc
    /\ mpc' = "notifyHup"
    /\ UNCHANGED <<keyState, exitCause, isInit, pprof, urandomNode, urandomOpen, comNode,
                   comOpen, hupNotify, hup, hupSent, hupDelivered, hupArrived,
                   cycleTrigger, cycles, sessions, hs>>
    /\ UNCHANGED <<idFile, handlerId>>
    /\ UNCHANGED <<prog, incoming, rpid, rstatus, rchan, waitErrs,
                   tableVars, childVars, consoleVars>>

\* A channel that queues every signal: none is dropped.
DeliverHup_Queued(n) == n + 1

\* A SIGHUP reaches the hup channel: the runtime's send does not block, a
\* signal that finds the buffer full is dropped.
DeliverHup(n) == IF n < HupCap THEN n + 1 ELSE n

\* hup := make(chan os.Signal, 1); signal.Notify(hup, SIGHUP);
\* syscall.Kill(pid, SIGHUP)
Main_NotifyHup ==
    /\ Running /\ mpc = "notifyHup"
    /\ hupNotify' = TRUE
    /\ hup' = DeliverHup(0)
    /\ hupDelivered' = hupDelivered + 1
    /\ hupArrived' = <<LifecycleState>>
    /\ mpc' = "waitHup"
    /\ UNCHANGED <<keyState, exitCause, isInit, pprof, urandomNode, urandomOpen, comNode,
                   comOpen, hupSent, cycleTrigger, cycles, sessions, hs>>
    /\ UNCHANGED <<idFile, handlerId>>
    /\ UNCHANGED otherThanMain

\* The environment sends a reconfiguration signal to the running agent.
SendHup ==
    /\ Running /\ hupNotify
    /\ hupSent < MaxHups
    /\ hupSent' = hupSent + 1
    /\ hup' = DeliverHup(hup)
    /\ hupDelivered' = IF hup' # hup THEN hupDelivered + 1 ELSE hupDelivered
    /\ hupArrived' = Append(hupArrived, LifecycleState)
    /\ UNCHANGED <<keyState, exitCause, mpc, isInit, pprof, urandomNode, urandomOpen,
                   comNode, comOpen, hupNotify, cycleTrigger, cycles, sessions, hs>>
    /\ UNCHANGED <<idFile, handlerId>>
    /\ UNCHANGED otherThanMain

\* <-hup : block until a signal is buffered, then start a cycle.
Main_WaitHup ==
    /\ Running /\ mpc = "waitHup"
    /\ hup > 0
    /\ cycles < MaxCycles
    /\ hup' = hup - 1
    /\ hupArrived' = <<>>
    /\ cycleTrigger' = hupArrived
    /\ cycles' = cycles + 1
    /\ hs' = "none"
    /\ mpc' = "openCom"
    /\ UNCHANGED <<keyState, exitCause, isInit, pprof, urandomNode, urandomOpen, comNode,
                   comOpen, hupNotify, hupSent, hupDelivered, sessions>>
    /\ UNCHANGED <<idFile, handlerId>>
    /\ UNCHANGED otherThanMain

\* f, err := os.OpenFile("/.tether/ttyS0", ...): on error, log and return;
\* defer f.Close()
Main_OpenCom ==
    /\ Running /\ mpc = "openCom"
    /\ \/ /\ comOpen' = comOpen + 1
          /\ mpc' = "NewFileConn"
          /\ UNCHANGED exitCause
       \/ /\ mpc' = "exited"
          /\ exitCause' = "openCom"
          /\ UNCHANGED comOpen
    /\ UNCHANGED <<keyState, isInit, pprof, urandomNode, urandomOpen, comNode,
                   hupNotify, hup, hupSent, hupDelivered, hupArrived,
                   cycleTrigger, cycles, sessions, hs>>
    /\ UNCHANGED <<idFile, handlerId>>
    /\ UNCHANGED otherThanMain

\* conn, err := serial.NewFileConn(f): on error, log and return (the deferred
\* f.Close() runs).
Main_NewFileConn ==
    /\ Running /\ mpc = "NewFileConn"
    /\ \/ /\ mpc' = "id"
          /\ UNCHANGED <<exitCause, comOpen>>
       \/ /\ mpc' = "exited"
          /\ exitCause' = "NewFileConn"
          /\ comOpen' = 0
    /\ UNCHANGED <<keyState, isInit, pprof, urandomNode, urandomOpen, comNode,
                   hupNotify, hup, hupSent, hupDelivered, hupArrived,
                   cycleTrigger, cycles, sessions, hs>>
    /\ UNCHANGED <<idFile, handlerId>>
    /\ UNCHANGED otherThanMain

IdMax == 64     \* len(id) > 64, id[:64]

\* id() with the bound off by one: the first 63 bytes of a long file.
id_OffByOne(file) ==
    IF Len(file) > IdMax THEN SubSeq(file, 1, IdMax - 1) ELSE file

\* id(): the bytes of the identity file, cut to the first 64 when longer
\* ("strip any trailing garbage").
id(file) ==
    IF Len(file) > IdMax THEN SubSeq(file, 1, IdMax) ELSE file

\* handler := GlobalHandler{id: id()}: id() calls log.Fatalf when the identity
\* file cannot be read (os.Exit: deferred calls do not run, the OS closes f).
Main_id ==
    /\ Running /\ mpc = "id"
    /\ \/ /\ handlerId' = id(idFile)
          /\ mpc' = "HandshakeServer"
          /\ UNCHANGED <<exitCause, comOpen>>
       \/ /\ mpc' = "exited"
          /\ exitCause' = "id"
          /\ comOpen' = 0
          /\ UNCHANGED handlerId
    /\ UNCHANGED <<keyState, isInit, pprof, urandomNode, urandomOpen, comNode,
                   hupNotify, hup, hupSent, hupDelivered, hupArrived,
                   cycleTrigger, cycles, sessions, hs, idFile>>
    /\ UNCHANGED otherThanMain

\* serial.HandshakeServer(conn, 10*time.Second): the call succeeds, or fails
\* or times out; main does not look at the outcome.
Main_HandshakeServer ==
    /\ Running /\ mpc = "HandshakeServer"
    /\ \/ hs' = "ok"
       \/ hs' = "fail"
    /\ mpc' = "StartTether"
    /\ UNCHANGED <<keyState, exitCause, isInit, pprof, urandomNode, urandomOpen, comNode,
                   comOpen, hupNotify, hup, hupSent, hupDelivered, hupArrived,
                   cycleTrigger, cycles, sessions>>
    /\ UNCHANGED <<idFile, handlerId>>
    /\ UNCHANGED otherThanMain

\* tether.StartTether(conn, private, &handler): the call starts the session
\* layer and blocks.
Main_StartTether ==
    /\ Running /\ mpc = "StartTether"
    /\ sessions' = sessions + 1
    /\ mpc' = "session"
    /\ UNCHANGED <<keyState, exitCause, isInit, pprof, urandomNode, urandomOpen, comNode,
                   comOpen, hupNotify, hup, hupSent, hupDelivered, hupArrived,
                   cycleTrigger, cycles, hs>>
    /\ UNCHANGED <<idFile, handlerId>>
    /\ UNCHANGED otherThanMain

\* A controller that serves one session only: main returns after f.Close().
Main_SessionReturns_OneShot ==
    /\ Running /\ mpc = "session"
    /\ comOpen' = comOpen - 1
    /\ mpc' = "exited"
    /\ exitCause' = "sessionEnd"
    /\ UNCHANGED <<keyState, isInit, pprof, urandomNode, urandomOpen, comNode,
                   hupNotify, hup, hupSent, hupDelivered, hupArrived,
                   cycleTrigger, cycles, sessions, hs>>
    /\ UNCHANGED <<idFile, handlerId>>
    /\ UNCHANGED otherThanMain

\* The signal channel is made anew when a session ends: a signal that arrived
\* during the session is forgotten.
Main_SessionReturns_DropsSignal ==
    /\ Running /\ mpc = "session"
    /\ comOpen' = comOpen - 1
    /\ mpc' = "waitHup"
    /\ hup' = 0
    /\ hupArrived' = <<>>
    /\ UNCHANGED <<keyState, exitCause, isInit, pprof, urandomNode, urandomOpen, comNode,
                   hupNotify, hupSent, hupDelivered, cycleTrigger, cycles, sessions, hs>>
    /\ UNCHANGED <<idFile, handlerId>>
    /\ UNCHANGED otherThanMain

\* The end of a session that leaves the device to the deferred f.Close(),
\* which runs only when main returns.
Main_SessionReturns_NoClose ==
    /\ Running /\ mpc = "session"
    /\ mpc' = "waitHup"
    /\ UNCHANGED <<keyState, exitCause, isInit, pprof, urandomNode, urandomOpen, comNode,
                   comOpen, hupNotify, hup, hupSent, hupDelivered, hupArrived,
                   cycleTrigger, cycles, sessions, hs>>
    /\ UNCHANGED <<idFile, handlerId>>
    /\ UNCHANGED otherThanMain

\* StartTether returns (disconnect or error); f.Close(); next iteration.
Main_SessionReturns ==
    /\ Running /\ mpc = "session"
    /\ comOpen' = comOpen - 1
    /\ mpc' = "waitHup"
    /\ UNCHANGED <<keyState, exitCause, isInit, pprof, urandomNode, urandomOpen, comNode,
                   hupNotify, hup, hupSent, hupDelivered, hupArrived,
                   cycleTrigger, cycles, sessions, hs>>
    /\ UNCHANGED <<idFile, handlerId>>
    /\ UNCHANGED otherThanMain

MainNext ==
    \/ Main_GoPprof
    \/ PprofListenAndServe
    \/ Main_MknodUrandom
    \/ Main_OpenUrandom
    \/ Main_privateKey
    \/ Main_MknodCom
    \/ Main_GoChildReaper
    \/ Main_NotifyHup
    \/ SendHup
    \/ Main_WaitHup
    \/ Main_OpenCom
    \/ Main_NewFileConn
    \/ Main_id
    \/ Main_HandshakeServer
    \/ Main_StartTether
    \/ Main_SessionReturns


\* ========================================================== console mode
otherThanConsole == <<prog, mainVars, reaperVars, tableVars, childVars>>

\* private = privateKey(tetherKey)
Console_privateKey ==
    /\ Running /\ cpc = "privateKey"
    /\ \E file \in KeyFiles :
         LET r == privateKey(file) IN
         /\ keyState' = r.key
         /\ cpc' = IF r.exit THEN "exited" ELSE "ListenTCP"
         /\ exitCause' = IF r.exit THEN "privateKey" ELSE exitCause
    /\ UNCHANGED <<ln, accepted, acceptErrs, hpc, issued, failed, guestConn, dconn>>
    /\ UNCHANGED otherThanConsole

\* externalIP, net.ResolveTCPAddr, net.ListenTCP: every error is logged and
\* main goes on (with a nil listener when ListenTCP failed).
Console_ListenTCP ==
    /\ Running /\ cpc = "ListenTCP"
    /\ \/ ln' = "listening"
       \/ ln' = "failed"
    /\ cpc' = "AcceptTCP"
    /\ UNCHANGED <<keyState, exitCause, accepted, acceptErrs, hpc, issued, failed,
                   guestConn, dconn>>
    /\ UNCHANGED otherThanConsole

\* The accept loop that calls handleConnectionFromGuest(conn) itself, without
\* `go`: it accepts again only when the handler it called has returned.
Console_AcceptTCP_Inline ==
    /\ Running /\ cpc = "AcceptTCP"
    /\ \A h \in Conns : hpc[h] \in {"idle", "done"}
    /\ \/ /\ ln = "listening"
          /\ accepted < MaxConns
          /\ accepted' = accepted + 1
          /\ hpc' = [hpc EXCEPT ![accepted + 1] = "Dial"]
          /\ guestConn' = [guestConn EXCEPT ![accepted + 1] = "open"]
          /\ UNCHANGED acceptErrs
       \/ /\ acceptErrs < MaxAcceptErrs
          /\ acceptErrs' = acceptErrs + 1
          /\ UNCHANGED <<accepted, hpc, guestConn>>
    /\ UNCHANGED <<keyState, exitCause, cpc, ln, issued, failed, dconn>>
    /\ UNCHANGED otherThanConsole

\* conn, err := ln.AcceptTCP(): on error print and loop, otherwise
\* go handleConnectionFromGuest(conn). A nil listener only yields errors.
Console_AcceptTCP ==
    /\ Running /\ cpc = "AcceptTCP"
    /\ \/ /\ ln = "listening"
          /\ accepted < MaxConns
          /\ accepted' = accepted + 1
          /\ hpc' = [hpc EXCEPT ![accepted + 1] = "Dial"]
          /\ guestConn' = [guestConn EXCEPT ![accepted + 1] = "open"]
          /\ UNCHANGED acceptErrs
       \/ /\ acceptErrs < MaxAcceptErrs
          /\ acceptErrs' = acceptErrs + 1
          /\ UNCHANGED <<accepted, hpc, guestConn>>
    /\ UNCHANGED <<keyState, exitCause, cpc, ln, issued, failed, dconn>>
    /\ UNCHANGED otherThanConsole

\* The statements of handleConnectionFromGuest in the order of the SPEC's
\* bootstrap sequence: the identity is captured after the sentinel is set.
ConsoleOrder_CaptureLast(stage) ==
    CASE stage = "Dial"               -> "HandshakeServer"
      [] stage = "HandshakeServer"    -> "discardUntilPrompt"
      [] stage = "discardUntilPrompt" -> "autoexec"
      [] stage = "autoexec"           -> "setPrompt"
      [] stage = "setPrompt"          -> "captureId"
      [] stage = "captureId"          -> "StartTether"
      [] stage = "StartTether"        -> "session"

\* The sentinel prompt set before the startup script runs.
ConsoleOrder_PromptFirst(stage) ==
    CASE stage = "Dial"               -> "HandshakeServer"
      [] stage = "HandshakeServer"    -> "discardUntilPrompt"
      [] stage = "discardUntilPrompt" -> "captureId"
      [] stage = "captureId"          -> "setPrompt"
      [] stage = "setPrompt"          -> "autoexec"
      [] stage = "autoexec"           -> "StartTether"
      [] stage = "StartTether"        -> "session"

\* The statement that follows each statement of handleConnectionFromGuest.
ConsoleOrder(stage) ==
    CASE stage = "Dial"               -> "HandshakeServer"
      [] stage = "HandshakeServer"    -> "discardUntilPrompt"
      [] stage = "discardUntilPrompt" -> "captureId"
      [] stage = "captureId"          -> "autoexec"
      [] stage = "autoexec"           -> "setPrompt"
      [] stage = "setPrompt"          -> "StartTether"
      [] stage = "StartTether"        -> "session"

\* The handler goes on to the next statement after performing `stage`.
Proceed(h, stage) ==
    /\ issued' = [issued EXCEPT ![h] = Append(@, stage)]
    /\ hpc' = [hpc EXCEPT ![h] = ConsoleOrder(stage)]

\* return: the deferred guestConn.Close() and (once deferred) dconn.Close().
Return(h) ==
    /\ hpc' = [hpc EXCEPT ![h] = "done"]
    /\ guestConn' = [guestConn EXCEPT ![h] = "closed"]
    /\ dconn' = [dconn EXCEPT ![h] = IF @ = "open" THEN "closed" ELSE @]

\* `stage` failed and the handler returns.
FailAndReturn(h, stage) ==
    /\ issued' = [issued EXCEPT ![h] = Append(@, stage)]
    /\ failed' = [failed EXCEPT ![h] = @ \cup {stage}]
    /\ Return(h)

consoleMainVars == <<keyState, exitCause, cpc, ln, accepted, acceptErrs>>

\* dconn, err := net.Dial("tcp", "localhost:2377"): on error log and return;
\* defer dconn.Close()
H_Dial(h) ==
    /\ Running /\ hpc[h] = "Dial"
    /\ \/ /\ dconn' = [dconn EXCEPT ![h] = "open"]
          /\ Proceed(h, "Dial")
          /\ UNCHANGED <<failed, guestConn>>
       \/ FailAndReturn(h, "Dial")
    /\ UNCHANGED consoleMainVars
    /\ UNCHANGED otherThanConsole

\* serial.HandshakeServer(dconn, 10*time.Second): the outcome is not looked at.
H_HandshakeServer(h) ==
    /\ Running /\ hpc[h] = "HandshakeServer"
    /\ \/ UNCHANGED failed
       \/ failed' = [failed EXCEPT ![h] = @ \cup {"HandshakeServer"}]
    /\ Proceed(h, "HandshakeServer")
    /\ UNCHANGED <<guestConn, dconn>>
    /\ UNCHANGED consoleMainVars
    /\ UNCHANGED otherThanConsole

\* handler.discardUntilPrompt(): reads up to the first prompt; it has no result.
H_discardUntilPrompt(h) ==
    /\ Running /\ hpc[h] = "discardUntilPrompt"
    /\ Proceed(h, "discardUntilPrompt")
    /\ UNCHANGED <<failed, guestConn, dconn>>
    /\ UNCHANGED consoleMainVars
    /\ UNCHANGED otherThanConsole

\* output, _ := handler.cmdCombinedOutput("type C:\\TETHER\\DOCKERID"):
\* the error is dropped; handler.id = StripCommandOutput(output)
H_captureId(h) ==
    /\ Running /\ hpc[h] = "captureId"
    /\ \/ UNCHANGED failed
       \/ failed' = [failed EXCEPT ![h] = @ \cup {"captureId"}]
    /\ Proceed(h, "captureId")
    /\ UNCHANGED <<guestConn, dconn>>
    /\ UNCHANGED consoleMainVars
    /\ UNCHANGED otherThanConsole

\* err = handler.cmdStart("C:\\AUTOEXEC.BAT"): on error log and return.
H_autoexec(h) ==
    /\ Running /\ hpc[h] = "autoexec"
    /\ \/ /\ Proceed(h, "autoexec")
          /\ UNCHANGED <<failed, guestConn, dconn>>
       \/ FailAndReturn(h, "autoexec")
    /\ UNCHANGED consoleMainVars
    /\ UNCHANGED otherThanConsole

\* err = handler.cmdStart("SET PROMPT=" + magicPrompt + "$g"): on error log
\* and return.
H_setPrompt(h) ==
    /\ Running /\ hpc[h] = "setPrompt"
    /\ \/ /\ Proceed(h, "setPrompt")
          /\ UNCHANGED <<failed, guestConn, dconn>>
       \/ FailAndReturn(h, "setPrompt")
    /\ UNCHANGED consoleMainVars
    /\ UNCHANGED otherThanConsole

\* tether.StartTether(dconn, private, &handler): starts the session layer.
H_StartTether(h) ==
    /\ Running /\ hpc[h] = "StartTether"
    /\ Proceed(h, "StartTether")
    /\ UNCHANGED <<failed, guestConn, dconn>>
    /\ UNCHANGED consoleMainVars
    /\ UNCHANGED otherThanConsole

\* StartTether returns and so does the handler.
H_SessionReturns(h) ==
    /\ Running /\ hpc[h] = "session"
    /\ Return(h)
    /\ UNCHANGED <<issued, failed>>
    /\ UNCHANGED consoleMainVars
    /\ UNCHANGED otherThanConsole

handleConnectionFromGuest(h) ==
    \/ H_Dial(h)
    \/ H_HandshakeServer(h)
    \/ H_discardUntilPrompt(h)
    \/ H_captureId(h)
    \/ H_autoexec(h)
    \/ H_setPrompt(h)
    \/ H_StartTether(h)
    \/ H_SessionReturns(h)

ConsoleNext ==
    \/ Console_privateKey
    \/ Console_ListenTCP
    \/ Console_AcceptTCP
    \/ \E h \in Conns : handleConnectionFromGuest(h)

\* ================================================ childReaper, children
otherThanReaper == <<commonVars, mainVars, consoleVars>>

ReaperRegistered == rpc \notin {"off", "Notify"}

Zombies == {p \in ChildPids : proc[p].st = "zombie"}

\* incoming := make(chan os.Signal, 10); signal.Notify(incoming, SIGCHLD)
Reaper_Notify ==
    /\ Running /\ rpc = "Notify"
    /\ rpc' = "range"
    /\ UNCHANGED <<incoming, rpid, rstatus, rchan, waitErrs>>
    /\ UNCHANGED <<tableVars, childVars>>
    /\ UNCHANGED otherThanReaper

\* for _ = range incoming : blocks until a notification is buffered.
Reaper_Range ==
    /\ Running /\ rpc = "range"
    /\ incoming > 0
    /\ incoming' = incoming - 1
    /\ rpc' = "Wait4"
    /\ UNCHANGED <<rpid, rstatus, rchan, waitErrs>>
    /\ UNCHANGED <<tableVars, childVars>>
    /\ UNCHANGED otherThanReaper

\* pid, err := syscall.Wait4(-1, &status, WNOHANG, nil)
\*   a terminated child: it is reaped, its pid is free again;
\*   pid == 0 || err == ECHILD: break, back to range;
\*   another error: log, next iteration of the inner loop.
Reaper_Wait4 ==
    /\ Running /\ rpc = "Wait4"
    /\ \/ /\ \E p \in Zombies :
               /\ rpid' = p
               /\ rstatus' = proc[p].inc
               /\ proc' = [proc EXCEPT ![p] = [st |-> "free", inc |-> 0]]
          /\ rpc' = "Lock"
          /\ UNCHANGED waitErrs
       \/ /\ Zombies = {}
          /\ rpc' = "range"
          /\ UNCHANGED <<rpid, rstatus, proc, waitErrs>>
       \/ /\ waitErrs < MaxWaitErrs
          /\ waitErrs' = waitErrs + 1
          /\ UNCHANGED <<rpc, rpid, rstatus, proc>>
    /\ UNCHANGED <<incoming, rchan>>
    /\ UNCHANGED <<tableVars, spc, spid, got, adopted>>
    /\ UNCHANGED otherThanReaper

\* childPidTableMutex.Lock()
Reaper_Lock ==
    /\ Running /\ rpc = "Lock"
    /\ childPidTableMutex = "free"
    /\ childPidTableMutex' = "reaper"
    /\ rpc' = "lookup"
    /\ UNCHANGED <<incoming, rpid, rstatus, rchan, waitErrs>>
    /\ UNCHANGED <<childPidTable, statusChan, delivered, discarded, childVars>>
    /\ UNCHANGED otherThanReaper

\* The lock released only after the send: the reaper keeps it while it sends.
Reaper_Lookup_HoldsLock ==
    /\ Running /\ rpc = "lookup"
    /\ rchan' = childPidTable[rpid]
    /\ childPidTableMutex' = IF childPidTable[rpid] # 0 THEN "reaper" ELSE "free"
    /\ rpc' = IF childPidTable[rpid] # 0 THEN "send" ELSE "Wait4"
    /\ discarded' = IF childPidTable[rpid] = 0 /\ rstatus # 0
                    THEN discarded \cup {rstatus} ELSE discarded
    /\ UNCHANGED <<incoming, rpid, rstatus, waitErrs>>
    /\ UNCHANGED <<childPidTable, statusChan, delivered, childVars>>
    /\ UNCHANGED otherThanReaper

\* The lookup without the test of ok: a pid without an entry yields the nil
\* queue, and the reaper goes on to send into it.
Reaper_Lookup_NoOkTest ==
    /\ Running /\ rpc = "lookup"
    /\ rchan' = childPidTable[rpid]
    /\ childPidTableMutex' = "free"
    /\ rpc' = IF childPidTable[rpid] # 0 THEN "send" ELSE "sendNil"
    /\ UNCHANGED <<incoming, rpid, rstatus, waitErrs>>
    /\ UNCHANGED <<childPidTable, statusChan, delivered, discarded, childVars>>
    /\ UNCHANGED otherThanReaper

\* statusChan, ok := childPidTable[pid]; childPidTableMutex.Unlock();
\* if !ok: "Reaped zombie process", the status is dropped.
Reaper_Lookup ==
    /\ Running /\ rpc = "lookup"
    /\ rchan' = childPidTable[rpid]
    /\ childPidTableMutex' = "free"
    /\ rpc' = IF childPidTable[rpid] # 0 THEN "send" ELSE "Wait4"
    /\ discarded' = IF childPidTable[rpid] = 0 /\ rstatus # 0
                    THEN discarded \cup {rstatus} ELSE discarded
    /\ UNCHANGED <<incoming, rpid, rstatus, waitErrs>>
    /\ UNCHANGED <<childPidTable, statusChan, delivered, childVars>>
    /\ UNCHANGED otherThanReaper

\* statusChan <- status : blocks while the queue's buffer is full.
Reaper_Send ==
    /\ Running /\ rpc = "send"
    /\ Len(statusChan[rchan]) < StatusChanCap
    /\ statusChan' = [statusChan EXCEPT ![rchan] = Append(@, rstatus)]
    /\ delivered' = [delivered EXCEPT ![rchan] = Append(@, rstatus)]
    /\ rpc' = "Wait4"
    /\ UNCHANGED <<incoming, rpid, rstatus, rchan, waitErrs>>
    /\ UNCHANGED <<childPidTableMutex, childPidTable, discarded, childVars>>
    /\ UNCHANGED otherThanReaper

\* The loop of childReaper, once it has registered for SIGCHLD.
childReaper ==
    \/ Reaper_Range
    \/ Reaper_Wait4
    \/ Reaper_Lock
    \/ Reaper_Lookup
    \/ Reaper_Send

\* ---- the spawner of a supervised child (exec_and_wait of the session layer)
\* The session layer starts child s; the OS gives it the free pid p.
Spawn(s, p) ==
    /\ Running /\ mpc = "session"
    /\ spc[s] = "idle"
    /\ proc[p].st = "free"
    /\ proc' = [proc EXCEPT ![p] = [st |-> "running", inc |-> s]]
    /\ spid' = [spid EXCEPT ![s] = p]
    /\ spc' = [spc EXCEPT ![s] = "spawned"]
    /\ UNCHANGED <<got, adopted>>
    /\ UNCHANGED <<reaperVars, tableVars>>
    /\ UNCHANGED otherThanReaper

\* Register(pid): take the table's lock.
Register_Lock(s) ==
    /\ Running /\ spc[s] = "spawned"
    /\ childPidTableMutex = "free"
    /\ childPidTableMutex' = "spawner"
    /\ spc' = [spc EXCEPT ![s] = "locked"]
    /\ UNCHANGED <<proc, spid, got, adopted>>
    /\ UNCHANGED <<reaperVars, childPidTable, statusChan, delivered, discarded>>
    /\ UNCHANGED otherThanReaper

\* Register(pid): childPidTable[pid] = a new single-slot queue; unlock.
Register_Insert(s) ==
    /\ Running /\ spc[s] = "locked"
    /\ childPidTable' = [childPidTable EXCEPT ![spid[s]] = s]
    /\ childPidTableMutex' = "free"
    /\ spc' = [spc EXCEPT ![s] = "registered"]
    /\ UNCHANGED <<proc, spid, got, adopted>>
    /\ UNCHANGED <<reaperVars, statusChan, delivered, discarded>>
    /\ UNCHANGED otherThanReaper

\* The spawner takes the exit status of its child from its queue.
Receive(s) ==
    /\ Running /\ spc[s] = "registered"
    /\ statusChan[s] # <<>>
    /\ got' = [got EXCEPT ![s] = Append(@, Head(statusChan[s]))]
    /\ statusChan' = [statusChan EXCEPT ![s] = Tail(@)]
    /\ spc' = [spc EXCEPT ![s] = "done"]
    /\ UNCHANGED <<proc, spid, adopted>>
    /\ UNCHANGED <<reaperVars, childPidTableMutex, childPidTable, delivered, discarded>>
    /\ UNCHANGED otherThanReaper

\* ---- the operating system
\* A SIGCHLD reaches the reaper's channel once signal.Notify has run; the
\* runtime drops it when the buffer is full.
DeliverChld(n) == IF ReaperRegistered /\ n < SigChldCap THEN n + 1 ELSE n

\* An orphan is re-parented to the agent (pid 1) under the free pid p.
Adopt(p) ==
    /\ Running /\ isInit
    /\ adopted < MaxAdopted
    /\ proc[p].st = "free"
    /\ proc' = [proc EXCEPT ![p] = [st |-> "running", inc |-> 0]]
    /\ adopted' = adopted + 1
    /\ UNCHANGED <<spc, spid, got>>
    /\ UNCHANGED <<reaperVars, tableVars>>
    /\ UNCHANGED otherThanReaper

\* The child with pid p terminates: it is a zombie until reaped, SIGCHLD is
\* raised.
ChildExit(p) ==
    /\ Running
    /\ proc[p].st = "running"
    /\ proc' = [proc EXCEPT ![p].st = "zombie"]
    /\ incoming' = DeliverChld(incoming)
    /\ UNCHANGED <<rpc, rpid, rstatus, rchan, waitErrs>>
    /\ UNCHANGED <<spc, spid, got, adopted>>
    /\ UNCHANGED tableVars
    /\ UNCHANGED otherThanReaper

ChildrenNext ==
    \/ \E s \in Spawners, p \in ChildPids : Spawn(s, p)
    \/ \E s \in Spawners : Register_Lock(s)
    \/ \E s \in Spawners : Register_Insert(s)
    \/ \E s \in Spawners : Receive(s)
    \/ \E p \in ChildPids : Adopt(p)
    \/ \E p \in ChildPids : ChildExit(p)

\* =========================================================== the programs
\* The agents without children: the lifecycle controller of the direct mode
\* (the reaper only registers for SIGCHLD) and the console-mode gateway.
Next == MainNext \/ Reaper_Notify \/ ConsoleNext

Spec == Init /\ [][Next]_vars

\* The direct-mode agent as pid 1 in its first session: main is blocked in
\* StartTether, childReaper has registered for SIGCHLD and waits for the first
\* notification; no child exists yet.
ReaperInit ==
    /\ prog = "direct"
    /\ keyState = "ok"
    /\ exitCause = "none"
    /\ mpc = "session"
    /\ isInit = TRUE
    /\ pprof = "listening"
    /\ urandomNode = TRUE
    /\ urandomOpen = TRUE
    /\ comNode = TRUE
    /\ comOpen = 1
    /\ hupNotify = TRUE
    /\ hup = 0
    /\ hupSent = 0
    /\ hupDelivered = 1
    /\ hupArrived = <<>>
    /\ cycleTrigger = <<"Startup">>
    /\ cycles = 1
    /\ sessions = 1
    /\ hs = "ok"
    /\ idFile = <<>>
    /\ handlerId = <<>>
    /\ rpc = "range"
    /\ incoming = 0
    /\ rpid = 0
    /\ rstatus = 0
    /\ rchan = 0
    /\ waitErrs = 0
    /\ childPidTableMutex = "free"
    /\ childPidTable = [p \in ChildPids |-> 0]
    /\ statusChan = [s \in Spawners |-> <<>>]
    /\ delivered = [s \in Spawners |-> <<>>]
    /\ discarded = {}
    /\ proc = [p \in ChildPids |-> [st |-> "free", inc |-> 0]]
    /\ spc = [s \in Spawners |-> "idle"]
    /\ spid = [s \in Spawners |-> 0]
    /\ got = [s \in Spawners |-> <<>>]
    /\ adopted = 0
    /\ cpc = "off"
    /\ ln = "none"
    /\ accepted = 0
    /\ acceptErrs = 0
    /\ hpc = [h \in Conns |-> "idle"]
    /\ issued = [h \in Conns |-> <<>>]
    /\ failed = [h \in Conns |-> {}]
    /\ guestConn = [h \in Conns |-> "none"]
    /\ dconn = [h \in Conns |-> "none"]

ReaperNext == childReaper \/ ChildrenNext

ReaperSpec == ReaperInit /\ [][ReaperNext]_vars

\* The scheduler runs every goroutine that can take a step: the reaper, and a
\* spawner that registers its child or takes a status from its queue. Nothing
\* is assumed of the environment (spawns, orphans, terminations).
ReaperFairness ==
    /\ WF_vars(childReaper)
    /\ \A s \in Spawners :
         /\ WF_vars(Register_Lock(s))
         /\ WF_vars(Register_Insert(s))
         /\ WF_vars(Receive(s))

FairReaperSpec == ReaperSpec /\ ReaperFairness

\* ---- the identity file
\* The contents the identity file may have: every length up to MaxIdLen, the
\* byte at each place telling the place.
IdFiles ==
    {[i \in 1..n |-> (i + k) % 256] : n \in 0..MaxIdLen, k \in 0..MaxIdShift}

\* main in its first cycle, about to build the handler: ttyS0 is open, the
\* identity file holds any of IdFiles.
IdInit ==
    /\ prog = "direct"
    /\ keyState = "ok"
    /\ exitCause = "none"
    /\ mpc = "id"
    /\ isInit \in BOOLEAN
    /\ pprof = "listening"
    /\ urandomNode = TRUE
    /\ urandomOpen = TRUE
    /\ comNode = TRUE
    /\ comOpen = 1
    /\ hupNotify = TRUE
    /\ hup = 0
    /\ hupSent = 0
    /\ hupDelivered = 1
    /\ hupArrived = <<>>
    /\ cycleTrigger = <<"Startup">>
    /\ cycles = 1
    /\ sessions = 0
    /\ hs = "none"
    /\ idFile \in IdFiles
    /\ handlerId = <<>>
    /\ rpc = IF isInit THEN "range" ELSE "off"
    /\ incoming = 0
    /\ rpid = 0
    /\ rstatus = 0
    /\ rchan = 0
    /\ waitErrs = 0
    /\ childPidTableMutex = "free"
    /\ childPidTable = [p \in ChildPids |-> 0]
    /\ statusChan = [s \in Spawners |-> <<>>]
    /\ delivered = [s \in Spawners |-> <<>>]
    /\ discarded = {}
    /\ proc = [p \in ChildPids |-> [st |-> "free", inc |-> 0]]
    /\ spc = [s \in Spawners |-> "idle"]
    /\ spid = [s \in Spawners |-> 0]
    /\ got = [s \in Spawners |-> <<>>]
    /\ adopted = 0
    /\ cpc = "off"
    /\ ln = "none"
    /\ accepted = 0
    /\ acceptErrs = 0
    /\ hpc = [h \in Conns |-> "idle"]
    /\ issued = [h \in Conns |-> <<>>]
    /\ failed = [h \in Conns |-> {}]
    /\ guestConn = [h \in Conns |-> "none"]
    /\ dconn = [h \in Conns |-> "none"]

IdNext == Main_id

IdSpec == IdInit /\ [][IdNext]_vars


\* ================================================================ claims
Positions(seq, x) == {i \in 1..Len(seq) : seq[i] = x}

IsPrefix(a, b) == Len(a) <= Len(b) /\ \A i \in 1..Len(a) : a[i] = b[i]

\* ---- direct mode: the lifecycle controller

\* C2 (as claimed): a failure to create or open the serial device never ends
\* the process: the process never exits because Mknod or OpenFile of ttyS0
\* failed.
C2_DeviceFailureKeepsRunning ==
    exitCause \notin {"mknodCom", "openCom"}

\* C3 (as claimed): the session layer runs only after the handshake of the
\* same cycle succeeded.
C3_SessionOnlyAfterHandshake ==
    mpc = "session" => hs = "ok"

C10_NothingBeforeKeyFailure ==
    keyState = "failed" =>
        /\ ~urandomNode /\ ~urandomOpen
        /\ ~comNode /\ comOpen = 0
        /\ pprof = "none" /\ ln = "none"
        /\ rpc = "off"

\* C10 (amended): a failed key load aborts the process before the serial
\* device node is created or opened, before the guest listener is started,
\* before the reaper is started and before the signal channel is registered.
C10_KeyFailureAborts ==
    keyState = "failed" =>
        /\ ~Running
        /\ ~comNode /\ comOpen = 0
        /\ ln = "none" /\ accepted = 0
        /\ rpc = "off"
        /\ ~hupNotify /\ cycles = 0

\* The key load failed in direct mode, after the entropy device was set up.
C10_Witness ==
    /\ keyState = "failed"
    /\ prog = "direct"
    /\ urandomNode /\ urandomOpen

\* ---- console mode: handleConnectionFromGuest

\* The statements of handleConnectionFromGuest, in program order.
BootstrapSequence ==
    <<"Dial", "HandshakeServer", "discardUntilPrompt", "captureId",
      "autoexec", "setPrompt", "StartTether">>

C8_SentinelAfterStartup ==
    \A h \in Conns :
        \A i \in Positions(issued[h], "setPrompt") :
            /\ \E j \in Positions(issued[h], "autoexec") : j < i
            /\ \A j \in Positions(issued[h], "autoexec") : j < i
            /\ "autoexec" \notin failed[h]

\* The sentinel was set and the session layer was started after it.
C8_Witness ==
    \E h \in Conns :
        /\ Positions(issued[h], "setPrompt") # {}
        /\ Positions(issued[h], "StartTether") # {}

\* C9 (as claimed): when a stage of an attempt failed, the session layer is
\* never started for that attempt, and both connections are closed when the
\* handler has ended.
C9_NoSessionAfterFailure ==
    \A h \in Conns :
        /\ failed[h] # {} => Positions(issued[h], "StartTether") = {}
        /\ hpc[h] = "done" => (guestConn[h] = "closed" /\ dconn[h] # "open")


\* ---- direct mode: childReaper and the child table

\* C1 (as claimed): the queue of a registration receives one status and no
\* more: once a status was delivered the entry is gone, so the status of a
\* later child that reuses the pid never reaches the stale registration.
C1_NoStaleDelivery ==
    \A s \in Spawners : Len(delivered[s]) <= 1

\* The drain loop of one wake: the reaper waits with no notification pending
\* only when no terminated child is left (the safety half of C4).
ReaperDrains ==
    (rpc = "range" /\ incoming = 0) => Zombies = {}

\* C4 (as claimed): the reaper drains every terminated child, hence every
\* terminated child is eventually reaped.
C4_EventuallyReaped ==
    \A p \in ChildPids : (proc[p].st = "zombie") ~> (proc[p].st # "zombie")

\* C5 (as claimed): whatever the order of registration and reap, the status
\* of a supervised child is not dropped and goes to no queue but its own.
C5_StatusNotLost ==
    \A s \in Spawners :
        /\ s \notin discarded
        /\ \A t \in Spawners \ {s} :
               \A i \in 1..Len(delivered[t]) : delivered[t][i] # s


\* ---- direct mode: reconfiguration signals

\* C11: a signal that arrives while the controller is Active leaves the
\* session running (same session, same cycle, the device still open) and is
\* buffered; the buffered signal is not consumed while Active; and a cycle
\* starts only from Idle, by consuming a buffered signal.
C11_SignalRetainedWhileActive ==
    /\ [][(LifecycleState = "Active" /\ hupSent' = hupSent + 1)
            => /\ LifecycleState' = "Active" /\ Running'
               /\ sessions' = sessions /\ cycles' = cycles /\ comOpen' = comOpen
               /\ hup' = HupCap]_vars
    /\ [][LifecycleState = "Active" => hup' >= hup]_vars
    /\ [][cycles' # cycles
            => /\ LifecycleState = "Idle" /\ hup > 0
               /\ LifecycleState' = "Provisioning" /\ hup' = hup - 1]_vars

\* A cycle is being provisioned whose signal arrived during the session of
\* the cycle before.
C11_Witness ==
    /\ LifecycleState = "Provisioning"
    /\ cycleTrigger = <<"Active">>
    /\ cycles = 2 /\ sessions = 1


\* ---- direct mode: the lock of the child table

\* C12: the reaper holds the lock of the table exactly while it is at the
\* lookup, a spawner exactly while it is at the insert; so while the reaper
\* is at its send a spawner can take the lock unless another spawner has it,
\* and the reaper can take it whenever no spawner is at its insert.
C12_LockOnlyAroundTable ==
    /\ (childPidTableMutex = "reaper") <=> (rpc = "lookup")
    /\ (childPidTableMutex = "spawner") <=> (\E s \in Spawners : spc[s] = "locked")
    /\ \A s \in Spawners :
         (rpc = "send" /\ spc[s] = "spawned" /\ \A t \in Spawners : spc[t] # "locked")
            => ENABLED Register_Lock(s)
    /\ (rpc = "Lock" /\ \A t \in Spawners : spc[t] # "locked") => ENABLED Reaper_Lock

\* The reaper is blocked in its send (the queue is full) and, meanwhile, a
\* spawner has taken the lock for its insert.
C12_Witness ==
    /\ rpc = "send"
    /\ Len(statusChan[rchan]) = StatusChanCap
    /\ \E s \in Spawners : spc[s] = "locked"


\* ---- direct mode: the identity

\* C13: the identity read from the file is its first 64 bytes when the file
\* is longer than 64 bytes, and the whole file, unmodified, when it has 64
\* bytes or fewer (the empty file too).
C13_IdentityTruncated ==
    (mpc = "HandshakeServer") =>
        /\ Len(idFile) > 64 =>
              /\ Len(handlerId) = 64
              /\ \A i \in 1..64 : handlerId[i] = idFile[i]
        /\ Len(idFile) <= 64 => handlerId = idFile

\* A file of 65 bytes was read and cut to 64.
C13_Witness ==
    /\ mpc = "HandshakeServer"
    /\ Len(idFile) = 65
    /\ Len(handlerId) = 64


\* ---- direct mode: the reaper's delivery

\* C14 (as claimed): whenever childReaper is at its send, the single-slot
\* queue it took from the table is empty, so the send never blocks.
C14_DeliveryNeverBlocks ==
    rpc = "send" => Len(statusChan[rchan]) < StatusChanCap

\* The safety half of C15: a failed wait leaves the reaper in its inner loop,
\* at the next call of Wait4, with no child reaped and nothing delivered.
ErrorKeepsLoop ==
    [][waitErrs' # waitErrs
         => /\ rpc = "Wait4" /\ rpc' = "Wait4" /\ Running'
            /\ proc' = proc /\ statusChan' = statusChan]_vars

\* C15 (as claimed): a wait error never ends the reaper, and every child that
\* has terminated once a wait has failed is still eventually reaped.
C15_WaitErrorSurvived ==
    /\ [][waitErrs' # waitErrs => (rpc' = "Wait4" /\ Running')]_vars
    /\ \A p \in ChildPids :
         (waitErrs > 0 /\ proc[p].st = "zombie") ~> (proc[p].st # "zombie")


\* ---- direct mode: adopted zombies

\* C16: when the reaper has reaped a pid that has no entry in the table, its
\* lookup step delivers nothing (no queue changes, no delivery is recorded),
\* leaves the table unchanged and returns to the next Wait4; a status is put
\* into a queue only by a send for which the lookup found an entry, and the
\* table changes only by the insert of a spawner.
C16_AdoptedZombieFrame ==
    /\ [][(rpc = "lookup" /\ childPidTable[rpid] = 0 /\ rpc' # rpc)
            => /\ statusChan' = statusChan
               /\ delivered' = delivered
               /\ childPidTable' = childPidTable
               /\ rpc' = "Wait4" /\ rchan' = 0]_vars
    /\ [][delivered' # delivered => (rpc = "send" /\ rchan # 0)]_vars
    /\ [][childPidTable' # childPidTable
            => \E s \in Spawners : spc[s] = "locked"]_vars

\* An orphan was reaped: the lookup found no entry and the reaper is back at
\* Wait4 with nothing delivered.
C16_Witness ==
    /\ rpc = "Wait4" /\ rpid # 0 /\ rstatus = 0
    /\ rchan = 0 /\ childPidTable[rpid] = 0
    /\ adopted > 0
    /\ \A s \in Spawners : delivered[s] = <<>>


\* ---- console mode: the accept loop

\* C17: the accept loop depends on no handler: while the listener listens,
\* the loop can accept the next connection whatever the handlers of earlier
\* connections are doing; an accepted connection gets a handler of its own,
\* which starts at its first statement and leaves the others as they are; and
\* no step of a handler (a failure, a return) moves or ends the accept loop.
C17_AcceptIndependentOfHandlers ==
    /\ (prog = "console" /\ Running /\ cpc = "AcceptTCP" /\ ln = "listening"
          /\ accepted < MaxConns)
         => ENABLED (Console_AcceptTCP /\ accepted' = accepted + 1)
    /\ \A h \in Conns : (hpc[h] # "idle") <=> (h <= accepted)
    /\ \A h \in Conns :
         (hpc[h] \notin {"idle", "done"}) => ENABLED handleConnectionFromGuest(h)

\* The first handler is in its session (it may stay there for ever) and a
\* second connection has been accepted and its handler has made progress.
C17_Witness ==
    /\ accepted = 2
    /\ hpc[1] = "session"
    /\ hpc[2] \notin {"idle", "Dial"}


\* ---- direct mode: coalescing of reconfiguration signals

\* C18: at most one signal is pending, however many have arrived; every cycle
\* has consumed one buffered signal and leaves none pending, so the signals
\* that arrived during one cycle start one further cycle and no more: back in
\* Idle the controller starts a cycle if and only if a signal is pending. The
\* cycles started never exceed the signals buffered, nor these the signals
\* sent (the startup signal included).
C18_SignalsCoalesced ==
    /\ hup <= 1
    /\ cycles + hup = hupDelivered
    /\ cycles <= hupDelivered
    /\ hupDelivered <= hupSent + 1
    /\ (Running /\ LifecycleState = "Idle" /\ cycles < MaxCycles)
         => (ENABLED Main_WaitHup <=> hup = 1)
    /\ (LifecycleState \in {"Provisioning", "Active"} /\ Len(hupArrived) > 0)
         => hup = 1

\* Two signals arrived during the first cycle; they started the second cycle
\* and, that cycle over, the controller waits in Idle with nothing pending.
C18_Witness ==
    /\ LifecycleState = "Idle" /\ Running
    /\ cycles = 2 /\ sessions = 2
    /\ Len(cycleTrigger) = 2
    /\ \A i \in 1..Len(cycleTrigger) : cycleTrigger[i] \in {"Provisioning", "Active"}
    /\ hup = 0 /\ hupArrived = <<>>
    /\ ~ ENABLED Main_WaitHup


\* ---- direct mode: the handle of the serial device

\* C19: while the controller waits in Idle no handle of the serial device is
\* open, and at no time is more than one open: the handle of a cycle is
\* closed before the next wait, so handles do not add up over the cycles.
C19_NoHandleWhileIdle ==
    /\ LifecycleState = "Idle" => comOpen = 0
    /\ comOpen <= 1
    /\ LifecycleState = "Active" => comOpen = 1

\* Idle again after two whole cycles, each of which had the device open.
C19_Witness ==
    /\ LifecycleState = "Idle" /\ Running
    /\ cycles = 2 /\ sessions = 2
    /\ comOpen = 0

====
